---- MODULE Spec2Model ----
(***************************************************************************)
(* govsplice: the boundary intersection and area-weighted aggregation of   *)
(* src/govsplice/data.py (Base_BoundedStatistic).                          *)
(*                                                                         *)
(* Geometry is discretised: space is a 2 x 2 grid of cells                 *)
(*        1 2                                                              *)
(*        3 4                                                              *)
(* and a polygon is the set of cells it covers.  A cell held in the        *)
(* geographic CRS (EPSG:4326) is the number c; the same cell reprojected   *)
(* to the planar CRS (EPSG:27700) is c + 10, so geometries held in         *)
(* different CRSs never share a coordinate.  Areas are computed from the   *)
(* coordinates: a geographic cell measures 1, a planar cell 50.            *)
(* Numbers are exact rationals; floating-point rounding is not modelled.   *)
(* Query features carry no properties.                                     *)
(***************************************************************************)
EXTENDS Integers, Sequences, FiniteSets, TLC

\* Features per query boundary.
MaxFeatures == 2
\* Load attempts per source file (a missing file is retried on every call).
MaxAttempts == 2

None == [none |-> TRUE]

\* frame.crs is None
NoCrs == "None"
Geographic == "EPSG:4326"
Planar == "EPSG:27700"

(***************************************************************************)
(* Cell values of a frame: strings as read from the CSV, numbers and NaN   *)
(* after pd.to_numeric.                                                    *)
(***************************************************************************)
Str(s) == [t |-> "str", s |-> s, n |-> 0]
Num(n) == [t |-> "num", s |-> <<>>, n |-> n]
NaN == [t |-> "nan", s |-> <<>>, n |-> 0]

IsDigit(ch) == ch \in {"0", "1", "2", "3", "4", "5", "6", "7", "8", "9"}

DigitVal(ch) ==
    CASE ch = "0" -> 0 [] ch = "1" -> 1 [] ch = "2" -> 2 [] ch = "3" -> 3
      [] ch = "4" -> 4 [] ch = "5" -> 5 [] ch = "6" -> 6 [] ch = "7" -> 7
      [] ch = "8" -> 8 [] ch = "9" -> 9

RECURSIVE ParseDigits(_)
ParseDigits(s) ==
    IF s = <<>> THEN 0
    ELSE 10 * ParseDigits(SubSeq(s, 1, Len(s) - 1)) + DigitVal(s[Len(s)])

\* A conversion that parses strings only: a cell that is already a number
\* is taken as unparseable.
to_numeric_strings_only(v) ==
    IF v.t = "str" /\ v.s # <<>> /\ \A i \in 1..Len(v.s) : IsDigit(v.s[i])
    THEN Num(ParseDigits(v.s))
    ELSE NaN

\* pd.to_numeric(..., errors='coerce') on one cell.
to_numeric(v) ==
    IF v.t # "str" THEN v
    ELSE IF v.s # <<>> /\ \A i \in 1..Len(v.s) : IsDigit(v.s[i])
         THEN Num(ParseDigits(v.s))
         ELSE NaN

\* The coercion with the .fillna(0) call left out.
fillna_omitted(v, fill) == v

\* .fillna(0) on one cell.
fillna(v, fill) == IF v.t = "nan" THEN Num(fill) ELSE v

(***************************************************************************)
(* Exact rationals, kept in lowest terms.                                  *)
(***************************************************************************)
RECURSIVE Gcd(_, _)
Gcd(a, b) == IF b = 0 THEN a ELSE Gcd(b, a % b)

Rat(n, d) == LET g == Gcd(n, d) IN [num |-> n \div g, den |-> d \div g]
RatAdd(a, b) == Rat(a.num * b.den + b.num * a.den, a.den * b.den)
RatMulInt(a, k) == Rat(a.num * k, a.den)
Zero == Rat(0, 1)

(***************************************************************************)
(* Geometry.                                                               *)
(***************************************************************************)
Cells == {1, 2, 3, 4}

\* One cell's coordinates in the target CRS.
ProjectCell(c, from, to) ==
    IF from = to THEN c
    ELSE IF to = Planar THEN c + 10
    ELSE c - 10

\* The area of one cell, from its coordinates.
CellArea(c) == IF c > 10 THEN 50 ELSE 1

RECURSIVE GeomArea(_)
GeomArea(cells) ==
    IF cells = {} THEN 0
    ELSE LET c == CHOOSE x \in cells : TRUE
         IN CellArea(c) + GeomArea(cells \ {c})

(***************************************************************************)
(* Frames.  A frame is [crs, cols, rows]; cols are the attribute columns   *)
(* besides the key and the geometry, and every row's vals is a record over *)
(* cols.  A statistics table has no geometry, a query frame no attributes. *)
(***************************************************************************)
\* Base_BoundedStatistic.targetCols (Stat_AgeGenderBands2021 configures ten
\* age/gender bands; two columns stand for them).
targetCols == <<"count", "other">>

\* gpd.GeoDataFrame.from_file(path): the frame the file holds.
from_file(file) == file

\* rawBounds.set_crs("EPSG:4326", inplace=True), applied when the CRS is None.
set_crs(frame, crs) == [frame EXCEPT !.crs = crs]

\* The rows of stats joined to one boundary row, in the order of stats.
JoinRow(b, srows) ==
    LET m == SelectSeq(srows, LAMBDA s : s.key = b.key)
    IN [i \in 1..Len(m) |-> [key |-> b.key, cells |-> b.cells, vals |-> m[i].vals]]

RECURSIVE MergeRows(_, _)
MergeRows(brows, srows) ==
    IF brows = <<>> THEN <<>>
    ELSE JoinRow(Head(brows), srows) \o MergeRows(Tail(brows), srows)

\* The join taken with how="left": every boundary kept, NaN where it has no
\* statistic.
merge_left(bounds, stats) ==
    [crs |-> bounds.crs, cols |-> stats.cols,
     rows |-> [i \in 1..Len(bounds.rows) |->
                 LET b == bounds.rows[i]
                     m == SelectSeq(stats.rows, LAMBDA r : r.key = b.key)
                 IN [key |-> b.key, cells |-> b.cells,
                     vals |-> IF m = <<>> THEN [c \in stats.cols |-> NaN]
                              ELSE m[1].vals]]]

\* rawBounds.merge(rawStats, on=key): pandas' default inner join.
merge(bounds, stats) ==
    [crs |-> bounds.crs, cols |-> stats.cols,
     rows |-> MergeRows(bounds.rows, stats.rows)]

\* frame.to_crs(crs): every geometry reprojected (the frame has a CRS).
to_crs(frame, crs) ==
    [crs |-> crs, cols |-> frame.cols,
     rows |-> [i \in 1..Len(frame.rows) |->
                 [frame.rows[i] EXCEPT
                    !.cells = {ProjectCell(c, frame.crs, crs) : c \in @}]]]

\* frame[col] = vs: a column added or overwritten, vs[i] the value of row i.
SetCol(frame, col, vs) ==
    [crs |-> frame.crs, cols |-> frame.cols \cup {col},
     rows |-> [i \in 1..Len(frame.rows) |->
                 [frame.rows[i] EXCEPT
                    !.vals = [c \in (DOMAIN @) \cup {col} |->
                                IF c = col THEN vs[i] ELSE @[c]]]]]

\* frame.geometry.area
GeometryArea(frame) == [i \in 1..Len(frame.rows) |-> Num(GeomArea(frame.rows[i].cells))]

\* data["area"] = data.geometry.area
with_area(frame) == SetCol(frame, "area", GeometryArea(frame))

\* data[col] = pd.to_numeric(data[col], errors='coerce').fillna(0)
CoerceCol(frame, col) ==
    SetCol(frame, col,
           [i \in 1..Len(frame.rows) |-> fillna(to_numeric(frame.rows[i].vals[col]), 0)])

(***************************************************************************)
(* The query boundary: a GeoJSON feature collection, a sequence of         *)
(* features [type, cells].  A closed LineString (what the isochrone        *)
(* endpoint returns) rings the cells it encloses; an OpenLineString is a   *)
(* LineString of three or more vertices whose last vertex is not its       *)
(* first, and its cells are those the line encloses once its ends are      *)
(* joined; a Point covers no cell.                                         *)
(***************************************************************************)
\* shapely's Polygon(geometry) accepts a polygon or a sequence of vertices;
\* a Point is neither.
Coercible(f) == f.type # "Point"

\* shapely's Polygon(geometry): the polygon with the geometry's ring as
\* shell; the ring of an open line is closed implicitly.
PolygonOf(f) == f.cells

\* GeoDataFrame.from_features + geometry.map(Polygon) + set_crs + to_crs.
QueryFrame(q) ==
    to_crs(set_crs([crs |-> NoCrs, cols |-> {},
                    rows |-> [i \in 1..Len(q) |-> [cells |-> PolygonOf(q[i])]]],
                   Geographic),
           Planar)

\* A fragment kept for every query polygon, overlapping or not.
RowFragments_keeps_disjoint(r, qrows) ==
    [j \in 1..Len(qrows) |-> [r EXCEPT !.cells = r.cells \cap qrows[j].cells]]

\* The fragments of one data row: its intersection with every query polygon
\* it shares area with.
RowFragments(r, qrows) ==
    LET hit == SelectSeq(qrows, LAMBDA g : r.cells \cap g.cells # {})
    IN [j \in 1..Len(hit) |-> [r EXCEPT !.cells = r.cells \cap hit[j].cells]]

RECURSIVE OverlayRows(_, _)
OverlayRows(drows, qrows) ==
    IF drows = <<>> THEN <<>>
    ELSE RowFragments(Head(drows), qrows) \o OverlayRows(Tail(drows), qrows)

\* gpd.overlay(df1, df2, how="intersection"): one row per pair of
\* intersecting geometries, carrying the columns of both frames; with no
\* intersecting pair the result is empty and keeps the columns.
overlay(df1, df2) ==
    [crs |-> df1.crs, cols |-> df1.cols \cup df2.cols,
     rows |-> OverlayRows(df1.rows, df2.rows)]

\* The ratio taken the wrong way round: area / intersection.
with_ratio_inverted(frame) ==
    LET a == SetCol(frame, "intersection", GeometryArea(frame))
    IN SetCol(a, "ratio",
              [i \in 1..Len(a.rows) |->
                 Rat(a.rows[i].vals["area"].n, a.rows[i].vals["intersection"].n)])

\* intersect["intersection"] = intersect.geometry.area
\* intersect["ratio"] = intersect["intersection"] / intersect["area"]
with_ratio(frame) ==
    LET a == SetCol(frame, "intersection", GeometryArea(frame))
    IN SetCol(a, "ratio",
              [i \in 1..Len(a.rows) |->
                 Rat(a.rows[i].vals["intersection"].n, a.rows[i].vals["area"].n)])

RECURSIVE WeightedSum(_, _)
\* (intersect[col] * intersect["ratio"]).sum()
WeightedSum(rows, col) ==
    IF rows = <<>> THEN Zero
    ELSE RatAdd(RatMulInt(Head(rows).vals["ratio"], Head(rows).vals[col].n),
                WeightedSum(Tail(rows), col))

Range(s) == {s[i] : i \in 1..Len(s)}

\* The outcome of a call: the returned mapping, or the exception raised.
Ok(counts) == [status |-> "ok", error |-> "", counts |-> counts]
Raise(e) == [status |-> "error", error |-> e, counts |-> <<>>]

\* A column still holding strings cannot be multiplied by the float ratio.
Multiplies(frame, col) == \A i \in 1..Len(frame.rows) : frame.rows[i].vals[col].t # "str"

\* The aggregation skipped when there is no fragment.
finalCounts_skips_empty(frame) ==
    LET present == {c \in Range(targetCols) : c \in frame.cols}
    IN IF frame.rows = <<>> THEN Ok(<<>>)
       ELSE Ok([c \in present |-> WeightedSum(frame.rows, c)])

\* finalCounts: one entry per target column the fragments carry.
finalCounts(frame) ==
    LET present == {c \in Range(targetCols) : c \in frame.cols}
    IN IF \E c \in present : ~Multiplies(frame, c) THEN Raise("TypeError")
       ELSE Ok([c \in present |-> WeightedSum(frame.rows, c)])

(***************************************************************************)
(* The two methods as functions of their inputs (one call, run alone).     *)
(***************************************************************************)
\* _setup_data on an instance with nothing set, both files present.
setup_data(boundsF, statsF) ==
    LET b == from_file(boundsF)
        rb == IF b.crs = NoCrs THEN set_crs(b, Geographic) ELSE b
    IN with_area(to_crs(merge(rb, from_file(statsF)), Planar))

RECURSIVE CoerceFrom(_, _)
CoerceFrom(frame, i) ==
    IF i > Len(targetCols) THEN frame
    ELSE CoerceFrom(CoerceCol(frame, targetCols[i]), i + 1)

\* intersection(queryBoundary) on the built dataset d.
intersection(d, q) ==
    IF \E j \in 1..Len(q) : ~Coercible(q[j]) THEN Raise("TypeError")
    ELSE IF \E c \in Range(targetCols) : c \notin d.cols THEN Raise("KeyError")
    ELSE finalCounts(with_ratio(overlay(CoerceFrom(d, 1), QueryFrame(q))))

(***************************************************************************)
(* The persisted sources of one dataset and the query boundaries.          *)
(***************************************************************************)
Missing == [missing |-> TRUE]

StatsRow(k, count, other) ==
    [key |-> k, vals |-> [count |-> Str(count), other |-> Str(other)]]

\* Clean counts; one non-numeric cell in the second target column.
StatsClean ==
    [crs |-> NoCrs, cols |-> {"count", "other"},
     rows |-> <<StatsRow("A", <<"5", "0">>, <<"7">>),
                StatsRow("B", <<"3", "0">>, <<"x">>)>>]

\* An empty string in a target column.
StatsEmptyCell ==
    [crs |-> NoCrs, cols |-> {"count", "other"},
     rows |-> <<StatsRow("A", <<>>, <<"7">>),
                StatsRow("B", <<"3", "0">>, <<"9">>)>>]

\* A table without the second target column.
StatsNoOther ==
    [crs |-> NoCrs, cols |-> {"count"},
     rows |-> <<[key |-> "A", vals |-> [count |-> Str(<<"5", "0">>)]],
                [key |-> "B", vals |-> [count |-> Str(<<"3", "0">>)]]>>]

\* A key without a boundary (C) and a boundary without a statistic (B).
StatsUnmatched ==
    [crs |-> NoCrs, cols |-> {"count", "other"},
     rows |-> <<StatsRow("A", <<"5", "0">>, <<"7">>),
                StatsRow("C", <<"3", "0">>, <<"9">>)>>]

StatsFiles == {Missing, StatsClean, StatsEmptyCell, StatsNoOther, StatsUnmatched}

\* Two units, the rows of the grid; and the top row alone.
BoundsTwoUnits(crs) ==
    [crs |-> crs, cols |-> {},
     rows |-> <<[key |-> "A", cells |-> {1, 2}], [key |-> "B", cells |-> {3, 4}]>>]

BoundsOneUnit ==
    [crs |-> Geographic, cols |-> {}, rows |-> <<[key |-> "A", cells |-> {1, 2}]>>]

BoundaryFiles ==
    {Missing, BoundsTwoUnits(Geographic), BoundsTwoUnits(NoCrs), BoundsOneUnit}

\* The top-left cell, the bottom-left cell and the left column.
QueryPolygons == {{1}, {3}, {1, 3}}

Features ==
    {[type |-> "Polygon", cells |-> c] : c \in QueryPolygons}
      \cup {[type |-> "LineString", cells |-> {1, 2, 3, 4}],
            [type |-> "OpenLineString", cells |-> {1, 2}],
            [type |-> "Point", cells |-> {}]}

Queries == UNION {[1..n -> Features] : n \in 1..MaxFeatures}

\* Query boundaries of the threaded specification: one polygon each, the
\* left column or the bottom-left cell.
ConcQueries == {<<f>> : f \in {g \in Features : g.cells \in {{1, 3}, {3}}}}

Threads == {"t1", "t2"}

\* The registered key misspelt.
DATASET_MAPPINGS_misspelt == {"simple_age_bin"}

\* config.DATASET_MAPPINGS: the registered dataset identifiers (the one
\* registered class is the dataset modelled here).
DATASET_MAPPINGS == {"simple_age_bins"}

\* The identifiers a caller passes to area_stats.
DatasetIds == {"simple_age_bins", "nonexistent"}

\* The query boundaries passed with an identifier: any for a registered one,
\* those of one feature for the others (the boundary is not looked at).
QueriesFor(id) ==
    IF id \in DATASET_MAPPINGS THEN Queries ELSE {<<f>> : f \in Features}

(***************************************************************************)
(* State.  rawStats, rawBounds and data are the instance attributes; pc,   *)
(* query, qframe, col, intersect and result are per call (locals of        *)
(* intersection), datasetId the identifier the call was made with;         *)
(* nLoadStats, nLoadBounds and nBuild count the executions of load_stats,  *)
(* load_boundaries and the merge; buildFailed records that a load has      *)
(* raised, follows that the call was made after a call with another query  *)
(* boundary had returned its aggregate.                                    *)
(***************************************************************************)
VARIABLES statsFile, boundsFile, rawStats, rawBounds, data,
          pc, datasetId, query, qframe, col, intersect, result,
          nLoadStats, nLoadBounds, nBuild, buildFailed, follows

vars == <<statsFile, boundsFile, rawStats, rawBounds, data,
          pc, datasetId, query, qframe, col, intersect, result,
          nLoadStats, nLoadBounds, nBuild, buildFailed, follows>>

files == <<statsFile, boundsFile>>
shared == <<rawStats, rawBounds, data>>
counters == <<nLoadStats, nLoadBounds, nBuild>>
locals == <<query, qframe, col, intersect>>

\* Base_BoundedStatistic.__init__
Init ==
    /\ statsFile \in StatsFiles
    /\ boundsFile \in BoundaryFiles
    /\ rawStats = None
    /\ rawBounds = None
    /\ data = None
    /\ pc = [p \in Threads |-> "idle"]
    /\ datasetId = [p \in Threads |-> "simple_age_bins"]
    /\ query = [p \in Threads |-> None]
    /\ qframe = [p \in Threads |-> None]
    /\ col = [p \in Threads |-> 1]
    /\ intersect = [p \in Threads |-> None]
    /\ result = [p \in Threads |-> None]
    /\ nLoadStats = 0
    /\ nLoadBounds = 0
    /\ nBuild = 0
    /\ buildFailed = FALSE
    /\ follows = [p \in Threads |-> FALSE]

\* The call leaves by an exception.
Raises(p, e) ==
    /\ pc' = [pc EXCEPT ![p] = "done"]
    /\ result' = [result EXCEPT ![p] = Raise(e)]

Goto(p, l) ==
    /\ pc' = [pc EXCEPT ![p] = l]
    /\ UNCHANGED result

\* A call with a query boundary other than q has returned its aggregate.
OtherReturned(q) ==
    \E r \in Threads :
        pc[r] = "done" /\ result[r].status = "ok" /\ query[r] # q

\* intersection(queryBoundary) is entered.
Call(p, q) ==
    /\ pc[p] \in {"idle", "done"}
    /\ follows' = [follows EXCEPT ![p] = OtherReturned(q)]
    /\ rawStats = None => nLoadStats < MaxAttempts
    /\ rawBounds = None => nLoadBounds < MaxAttempts
    /\ pc' = [pc EXCEPT ![p] = "L217"]
    /\ query' = [query EXCEPT ![p] = q]
    /\ qframe' = [qframe EXCEPT ![p] = None]
    /\ col' = [col EXCEPT ![p] = 1]
    /\ intersect' = [intersect EXCEPT ![p] = None]
    /\ result' = [result EXCEPT ![p] = None]
    /\ UNCHANGED <<files, shared, counters, buildFailed>>

\* DataBase.area_stats(queryBoundary, datasetId): an identifier that is not
\* registered fails with UnknownDatasetError before any dataset is touched;
\* a registered one delegates to the dataset's intersection.
area_stats(p, q, id) ==
    /\ datasetId' = [datasetId EXCEPT ![p] = id]
    /\ IF id \in DATASET_MAPPINGS
       THEN Call(p, q)
       ELSE /\ pc[p] \in {"idle", "done"}
            /\ Raises(p, "UnknownDatasetError")
            /\ UNCHANGED follows
            /\ query' = [query EXCEPT ![p] = q]
            /\ qframe' = [qframe EXCEPT ![p] = None]
            /\ col' = [col EXCEPT ![p] = 1]
            /\ intersect' = [intersect EXCEPT ![p] = None]
            /\ UNCHANGED <<files, shared, counters, buildFailed>>

\* if self.rawStats is None:
CheckStats(p) ==
    /\ pc[p] = "L217"
    /\ Goto(p, IF rawStats = None THEN "L218" ELSE "L220")
    /\ UNCHANGED <<files, datasetId, follows, shared, counters, buildFailed, locals>>

\* self.load_stats()
LoadStats(p) ==
    /\ pc[p] = "L218"
    /\ nLoadStats' = nLoadStats + 1
    /\ IF statsFile = Missing
       THEN /\ Raises(p, "DataSourceError")
            /\ buildFailed' = TRUE
            /\ UNCHANGED rawStats
       ELSE /\ rawStats' = from_file(statsFile)
            /\ Goto(p, "L220")
            /\ UNCHANGED buildFailed
    /\ UNCHANGED <<files, datasetId, follows, rawBounds, data, nLoadBounds, nBuild, locals>>

\* if self.rawBounds is None:
CheckBounds(p) ==
    /\ pc[p] = "L220"
    /\ Goto(p, IF rawBounds = None THEN "L221" ELSE "L225")
    /\ UNCHANGED <<files, datasetId, follows, shared, counters, buildFailed, locals>>

\* self.load_boundaries()
LoadBounds(p) ==
    /\ pc[p] = "L221"
    /\ nLoadBounds' = nLoadBounds + 1
    /\ IF boundsFile = Missing
       THEN /\ Raises(p, "DataSourceError")
            /\ buildFailed' = TRUE
            /\ UNCHANGED rawBounds
       ELSE /\ rawBounds' = from_file(boundsFile)
            /\ Goto(p, "L222")
            /\ UNCHANGED buildFailed
    /\ UNCHANGED <<files, datasetId, follows, rawStats, data, nLoadStats, nBuild, locals>>

\* if self.rawBounds.crs is None: self.rawBounds.set_crs("EPSG:4326", inplace=True)
SetCrs(p) ==
    /\ pc[p] = "L222"
    /\ rawBounds' = IF rawBounds.crs = NoCrs THEN set_crs(rawBounds, Geographic)
                    ELSE rawBounds
    /\ Goto(p, "L225")
    /\ UNCHANGED <<files, datasetId, follows, rawStats, data, counters, buildFailed, locals>>

\* if self.data is None:
CheckData(p) ==
    /\ pc[p] = "L225"
    /\ Goto(p, IF data = None THEN "L226" ELSE "L242")
    /\ UNCHANGED <<files, datasetId, follows, shared, counters, buildFailed, locals>>

\* self.data = self.rawBounds.merge(self.rawStats, on=self.key)
Merge(p) ==
    /\ pc[p] = "L226"
    /\ data' = merge(rawBounds, rawStats)
    /\ nBuild' = nBuild + 1
    /\ Goto(p, "L227")
    /\ UNCHANGED <<files, datasetId, follows, rawStats, rawBounds, nLoadStats, nLoadBounds,
                   buildFailed, locals>>

\* self.data = self.data.to_crs("EPSG:27700"); a frame without a CRS cannot
\* be transformed.
Reproject(p) ==
    /\ pc[p] = "L227"
    /\ IF data.crs = NoCrs
       THEN Raises(p, "ValueError") /\ UNCHANGED data
       ELSE data' = to_crs(data, Planar) /\ Goto(p, "L228")
    /\ UNCHANGED <<files, datasetId, follows, rawStats, rawBounds, counters, buildFailed, locals>>

\* self.data["area"] = self.data.geometry.area
Area(p) ==
    /\ pc[p] = "L228"
    /\ data' = with_area(data)
    /\ Goto(p, "L242")
    /\ UNCHANGED <<files, datasetId, follows, rawStats, rawBounds, counters, buildFailed, locals>>

\* queryBoundary = from_features(...); map(Polygon); set_crs; to_crs.
\* Polygon(geometry) raises shapely's TypeError on a Point.
PrepQuery(p) ==
    /\ pc[p] = "L242"
    /\ IF \E j \in 1..Len(query[p]) : ~Coercible(query[p][j])
       THEN Raises(p, "TypeError") /\ UNCHANGED qframe
       ELSE /\ qframe' = [qframe EXCEPT ![p] = QueryFrame(query[p])]
            /\ Goto(p, "L247")
    /\ UNCHANGED <<files, datasetId, follows, shared, counters, buildFailed, query, col, intersect>>

\* for col in self.targetCols: self.data[col] = pd.to_numeric(...).fillna(0)
Coerce(p) ==
    /\ pc[p] = "L247"
    /\ IF targetCols[col[p]] \notin data.cols
       THEN Raises(p, "KeyError") /\ UNCHANGED <<data, col>>
       ELSE /\ data' = CoerceCol(data, targetCols[col[p]])
            /\ col' = [col EXCEPT ![p] = @ + 1]
            /\ Goto(p, IF col[p] = Len(targetCols) THEN "L253" ELSE "L247")
    /\ UNCHANGED <<files, datasetId, follows, rawStats, rawBounds, counters, buildFailed,
                   query, qframe, intersect>>

\* intersect = gpd.overlay(self.data, queryBoundary, how="intersection")
\* and its "intersection" and "ratio" columns; intersect["area"] is the
\* overlay's column of that name.
Overlay(p) ==
    /\ pc[p] = "L253"
    /\ LET o == overlay(data, qframe[p])
       IN IF "area" \notin o.cols
          THEN Raises(p, "KeyError") /\ UNCHANGED intersect
          ELSE /\ intersect' = [intersect EXCEPT ![p] = with_ratio(o)]
               /\ Goto(p, "L257")
    /\ UNCHANGED <<files, datasetId, follows, shared, counters, buildFailed, query, qframe, col>>

\* finalCounts = {...}; return finalCounts
Aggregate(p) ==
    /\ pc[p] = "L257"
    /\ pc' = [pc EXCEPT ![p] = "done"]
    /\ result' = [result EXCEPT ![p] = finalCounts(intersect[p])]
    /\ UNCHANGED <<files, datasetId, follows, shared, counters, buildFailed, locals>>

\* One step of a call by thread p.
Step(p) ==
    \/ CheckStats(p)
    \/ LoadStats(p)
    \/ CheckBounds(p)
    \/ LoadBounds(p)
    \/ SetCrs(p)
    \/ CheckData(p)
    \/ Merge(p)
    \/ Reproject(p)
    \/ Area(p)
    \/ PrepQuery(p)
    \/ Coerce(p)
    \/ Overlay(p)
    \/ Aggregate(p)

\* The service as deployed: the endpoint is a coroutine that calls
\* area_stats without awaiting, so the event loop runs one call at a time.
Next ==
    \/ \E id \in DatasetIds : \E q \in QueriesFor(id) : area_stats("t1", q, id)
    \/ Step("t1")

Spec == Init /\ [][Next]_vars

\* The instance shared by two threads that interleave at every statement.
NextConc ==
    \E p \in Threads :
        \/ \E q \in ConcQueries, id \in DatasetIds : area_stats(p, q, id)
        \/ Step(p)

SpecConc == Init /\ [][NextConc]_vars

(***************************************************************************)
(* Vocabulary of the properties.                                           *)
(***************************************************************************)
\* A call of the dataset's intersection has ended.
Done(p) == pc[p] = "done" /\ datasetId[p] \in DATASET_MAPPINGS
Returned(p) == Done(p) /\ result[p].status = "ok"

\* The joined dataset is complete: merged, reprojected, with its area column.
Built == data # None /\ data.crs = Planar /\ "area" \in data.cols

PresentTargets(frame) == {c \in Range(targetCols) : c \in frame.cols}

\* The cells a feature covers, in the planar CRS, and those a query covers.
PlanarCells(f) == {ProjectCell(c, Geographic, Planar) : c \in f.cells}
Coverage(q) == UNION {PlanarCells(q[j]) : j \in 1..Len(q)}

\* The pairs (unit, query feature) of a call.
Pairs(p) == (1..Len(data.rows)) \X (1..Len(query[p]))

\* value * fragment area / unit area for unit x[1] and feature x[2].
PairShare(p, c, x) ==
    LET r == data.rows[x[1]]
    IN Rat(r.vals[c].n * GeomArea(r.cells \cap PlanarCells(query[p][x[2]])),
           r.vals["area"].n)

RECURSIVE SumShares(_, _, _)
SumShares(p, c, S) ==
    IF S = {} THEN Zero
    ELSE LET x == CHOOSE y \in S : TRUE
         IN RatAdd(PairShare(p, c, x), SumShares(p, c, S \ {x}))

\* Every feature of the query boundary can be made a polygon.
AllCoercible(q) == \A j \in 1..Len(q) : Coercible(q[j])

\* Every feature of the query boundary is a polygon or a closed ring.
AllClosed(q) == \A j \in 1..Len(q) : q[j].type \in {"Polygon", "LineString"}

LeftHalves == <<[type |-> "Polygon", cells |-> {1, 3}]>>

\* C1: a call that returns yields, for exactly the target fields among the
\* fragment columns, the sum over all (unit, query feature) intersections
\* of value * fragment area / unit area; two units of area 100 with counts
\* 50 and 30, each overlapped on area 50, give count = 40.
C1_AreaWeightedSum ==
    \A p \in Threads :
        Returned(p) =>
            /\ DOMAIN result[p].counts = PresentTargets(intersect[p])
            /\ \A c \in DOMAIN result[p].counts :
                   result[p].counts[c] = SumShares(p, c, Pairs(p))
            /\ ( /\ statsFile = StatsClean
                 /\ boundsFile \in {BoundsTwoUnits(Geographic), BoundsTwoUnits(NoCrs)}
                 /\ query[p] = LeftHalves )
               => result[p].counts["count"] = Rat(40, 1)

\* The concrete scenario has run: both units of area 100 are half covered.
C1_Witness ==
    \E p \in Threads :
        /\ Returned(p)
        /\ statsFile = StatsClean
        /\ boundsFile = BoundsTwoUnits(Geographic)
        /\ query[p] = LeftHalves
        /\ Len(intersect[p].rows) = 2
        /\ \A i \in 1..2 : /\ intersect[p].rows[i].vals["area"] = Num(100)
                           /\ intersect[p].rows[i].vals["intersection"] = Num(50)
        /\ result[p].counts["count"] = Rat(40, 1)

\* q1 and q2 cover disjoint regions whose union is the region q covers.
Splits(q, q1, q2) ==
    /\ Coverage(q1) \cap Coverage(q2) = {}
    /\ Coverage(q1) \cup Coverage(q2) = Coverage(q)

\* C2: partition law; for a returned call with boundary Q and every split of
\* Q into Q1 and Q2 (boundaries of polygons and closed rings), the aggregates
\* of Q1 and Q2 add up, field by field, to the aggregate of Q.
C2_PartitionLaw ==
    \A p \in Threads :
        (Returned(p) /\ AllClosed(query[p])) =>
            \A q1, q2 \in {q \in Queries : AllClosed(q)} :
                Splits(query[p], q1, q2) =>
                    LET r1 == intersection(data, q1)
                        r2 == intersection(data, q2)
                    IN /\ r1.status = "ok"
                       /\ r2.status = "ok"
                       /\ \A c \in DOMAIN result[p].counts :
                              RatAdd(r1.counts[c], r2.counts[c]) = result[p].counts[c]

\* Unit i lies inside the region q covers and q touches no other unit.
ContainsOnly(q, i) ==
    /\ data.rows[i].cells \subseteq Coverage(q)
    /\ \A k \in 1..Len(data.rows) :
           k # i => data.rows[k].cells \cap Coverage(q) = {}

\* C3: area conservation; when the query boundary (of polygons and closed
\* rings) contains one unit and overlaps no other, every fragment has ratio 1
\* and each aggregate equals that unit's value.
C3_AreaConservation ==
    \A p \in Threads :
        (Returned(p) /\ AllClosed(query[p])) =>
            \A i \in 1..Len(data.rows) :
                ContainsOnly(query[p], i) =>
                    /\ \A k \in 1..Len(intersect[p].rows) :
                           intersect[p].rows[k].vals["ratio"] = Rat(1, 1)
                    /\ \A c \in DOMAIN result[p].counts :
                           result[p].counts[c] = Rat(data.rows[i].vals[c].n, 1)

\* C4: once a build has failed, no later step runs a load or the merge again
\* and every call against the dataset that ends fails with
\* DatasetUnavailableError.
C4_FailedIsTerminal ==
    [][buildFailed =>
          /\ counters' = counters
          /\ \A p \in Threads :
                 (pc[p] # "done" /\ pc'[p] = "done"
                    /\ datasetId'[p] \in DATASET_MAPPINGS) =>
                     result'[p] = Raise("DatasetUnavailableError")]_vars

\* The areas of the joined rows, in order.
Areas(frame) == [i \in 1..Len(frame.rows) |-> frame.rows[i].vals["area"]]

\* C5: load_stats, load_boundaries and the merge each run at most once, and
\* once the dataset is built its row count and areas never change.
C5_BuiltAtMostOnce ==
    [][/\ nLoadStats' <= 1
       /\ nLoadBounds' <= 1
       /\ nBuild' <= 1
       /\ Built => /\ Built'
                   /\ Len(data'.rows) = Len(data.rows)
                   /\ Areas(data') = Areas(data)]_vars

\* C6: once the joined dataset is built, no step of any request changes
\* rawStats, rawBounds or data.
C6_RequestsLeaveDatasetAlone == [][Built => shared' = shared]_vars

\* C7: a call about to compute the overlay (and one that has computed it)
\* sees a dataset that is merged, reprojected to the planar CRS and carries
\* the area column.
C7_OverlayOnBuiltDataset ==
    \A p \in Threads : pc[p] \in {"L253", "L257"} => Built

\* A cell pd.to_numeric cannot parse: not a non-empty string of digits.
NonNumeric(v) ==
    v.t = "str" /\ (v.s = <<>> \/ \E i \in 1..Len(v.s) : ~IsDigit(v.s[i]))

HasNonNumeric(stats) ==
    \E i \in 1..Len(stats.rows) :
        \E c \in PresentTargets(stats) : NonNumeric(stats.rows[i].vals[c])

\* The table with every non-numeric target cell replaced by "0".
Zeroed(stats) ==
    [stats EXCEPT
       !.rows = [i \in 1..Len(stats.rows) |->
                   [stats.rows[i] EXCEPT
                      !.vals = [c \in DOMAIN @ |->
                                  IF c \in Range(targetCols) /\ NonNumeric(@[c])
                                  THEN Str(<<"0">>) ELSE @[c]]]]]

\* C8: on a dataset with a non-numeric target cell (all target columns
\* present) a call with a polygon boundary succeeds, a call returns what it returns on the dataset with
\* those cells replaced by 0, and multiplies no NaN or string by a ratio.
C8_NonNumericCountsZero ==
    \A p \in Threads :
        ( /\ statsFile # Missing
          /\ boundsFile # Missing
          /\ HasNonNumeric(statsFile)
          /\ Range(targetCols) \subseteq statsFile.cols ) =>
            /\ Done(p) =>
                   /\ AllCoercible(query[p]) => result[p].status = "ok"
                   /\ result[p] =
                          intersection(setup_data(boundsFile, Zeroed(statsFile)), query[p])
            /\ intersect[p] # None =>
                   \A i \in 1..Len(intersect[p].rows) :
                       \A c \in Range(targetCols) :
                           intersect[p].rows[i].vals[c].t = "num"

\* Unit A, whose count is the empty string, is half covered together with
\* unit B (count 30): the count is 0 * 1/2 + 30 * 1/2.
C8_Witness ==
    \E p \in Threads :
        /\ Returned(p)
        /\ statsFile = StatsEmptyCell
        /\ boundsFile = BoundsTwoUnits(Geographic)
        /\ query[p] = LeftHalves
        /\ Len(intersect[p].rows) = 2
        /\ intersect[p].rows[1].key = "A"
        /\ result[p].counts["count"] = Rat(15, 1)

\* C9: on a built dataset every call with a polygon boundary returns, with
\* a key for exactly the target fields the dataset has; an absent target
\* field is left out.
C9_AbsentFieldOmitted ==
    \A p \in Threads :
        (Done(p) /\ Built /\ AllCoercible(query[p])) =>
            /\ result[p].status = "ok"
            /\ DOMAIN result[p].counts = PresentTargets(statsFile)

\* The query touches no unit of the joined dataset.
DisjointFromUnits(q) ==
    \A i \in 1..Len(data.rows) : data.rows[i].cells \cap Coverage(q) = {}

\* C10: for a polygon boundary disjoint from every unit the overlay is empty
\* and the call returns 0 for every target field of the dataset; with all
\* target fields present the call reaches the overlay and returns.
C10_DisjointGivesZeros ==
    \A p \in Threads :
        (Built /\ pc[p] # "idle" /\ AllCoercible(query[p])
           /\ DisjointFromUnits(query[p])) =>
            /\ intersect[p] # None =>
                   /\ intersect[p].rows = <<>>
                   /\ Done(p) =>
                          /\ result[p].status = "ok"
                          /\ DOMAIN result[p].counts = PresentTargets(data)
                          /\ \A c \in PresentTargets(data) : result[p].counts[c] = Zero
            /\ (Done(p) /\ Range(targetCols) \subseteq data.cols) =>
                   result[p].status = "ok"

\* A query on the bottom-left cell against the dataset whose only unit is
\* the top row has returned.
C10_Witness ==
    \E p \in Threads :
        /\ Returned(p)
        /\ boundsFile = BoundsOneUnit
        /\ statsFile = StatsClean
        /\ query[p] = <<[type |-> "Polygon", cells |-> {3}]>>
        /\ intersect[p].rows = <<>>
        /\ result[p].counts = [count |-> Zero, other |-> Zero]

\* Thread p makes a call of area_stats in this step.
Calls(p) ==
    /\ pc[p] \in {"idle", "done"}
    /\ (pc'[p] # pc[p] \/ datasetId'[p] # datasetId[p])

C12_NonPolygonRejected ==
    \A p \in Threads :
        (Done(p) /\ Built
           /\ \E j \in 1..Len(query[p]) :
                  query[p][j].type \in {"Point", "OpenLineString"}) =>
            /\ result[p] = Raise("GeometryError")
            /\ intersect[p] = None

\* The units (rows of the joined dataset) the query boundary overlaps.
Overlapping(q) ==
    {i \in 1..Len(data.rows) : data.rows[i].cells \cap Coverage(q) # {}}

\* C13: every fragment of an overlay is a non-empty part of a unit the query
\* overlaps, its ratio is its planar area over that unit's planar area and
\* lies in (0, 1], and there are at most (query polygons) x (overlapping
\* units) fragments.
C13_RatioInUnitInterval ==
    \A p \in Threads :
        intersect[p] # None =>
            LET rows == intersect[p].rows
            IN /\ \A k \in 1..Len(rows) :
                      /\ rows[k].cells # {}
                      /\ \E i \in Overlapping(query[p]) :
                             /\ data.rows[i].key = rows[k].key
                             /\ rows[k].cells \subseteq data.rows[i].cells
                             /\ rows[k].vals["ratio"] =
                                    Rat(GeomArea(rows[k].cells),
                                        GeomArea(data.rows[i].cells))
                      /\ rows[k].vals["ratio"].num > 0
                      /\ rows[k].vals["ratio"].num <= rows[k].vals["ratio"].den
               /\ Len(rows) <= Len(query[p]) * Cardinality(Overlapping(query[p]))

\* An overlay of two units by two features, one feature covering half of
\* each unit and the other the whole grid: four fragments, ratios 1/2 and 1.
C13_Witness ==
    \E p \in Threads :
        /\ intersect[p] # None
        /\ Len(query[p]) = 2
        /\ Len(data.rows) = 2
        /\ Len(intersect[p].rows) = 4
        /\ \E k \in 1..4 : intersect[p].rows[k].vals["ratio"] = Rat(1, 2)
        /\ \E k \in 1..4 : intersect[p].rows[k].vals["ratio"] = Rat(1, 1)
        /\ \E i \in 1..2 : \E k \in 1..Len(intersect[p].rows) :
               intersect[p].rows[k].cells # data.rows[i].cells
                 /\ intersect[p].rows[k].key = data.rows[i].key

Keys(frame) == {frame.rows[i].key : i \in 1..Len(frame.rows)}

WholeGrid == <<[type |-> "LineString", cells |-> {1, 2, 3, 4}]>>

\* C14: the joined dataset has one row for each key that both the boundary
\* file and the statistics file hold and no other row; no fragment belongs
\* to an unmatched key; with all target fields present a call with a polygon
\* boundary returns; and with statistics for A and C and boundaries for A and
\* B a query over the whole grid returns the values of A alone.
C14_InnerJoin ==
    data # None =>
        LET both == Keys(boundsFile) \cap Keys(statsFile)
        IN /\ Keys(data) = both
           /\ Len(data.rows) = Cardinality(both)
           /\ \A p \in Threads :
                  /\ intersect[p] # None => Keys(intersect[p]) \subseteq both
                  /\ ( /\ Done(p)
                       /\ Built
                       /\ AllCoercible(query[p])
                       /\ Range(targetCols) \subseteq data.cols ) =>
                         /\ result[p].status = "ok"
                         /\ ( /\ statsFile = StatsUnmatched
                              /\ Keys(boundsFile) = {"A", "B"}
                              /\ query[p] = WholeGrid ) =>
                                result[p].counts =
                                    [count |-> Rat(50, 1), other |-> Rat(7, 1)]

\* Statistics for A and C joined to boundaries for A and B: one row, A; a
\* query over the whole grid has returned.
C14_Witness ==
    \E p \in Threads :
        /\ Returned(p)
        /\ statsFile = StatsUnmatched
        /\ boundsFile = BoundsTwoUnits(Geographic)
        /\ Built
        /\ Keys(data) = {"A"}
        /\ query[p] = WholeGrid
        /\ Keys(intersect[p]) = {"A"}
        /\ result[p].counts["count"] = Rat(50, 1)

RECURSIVE UnitTotal(_, _)
UnitTotal(c, S) ==
    IF S = {} THEN 0
    ELSE LET i == CHOOSE j \in S : TRUE
         IN data.rows[i].vals[c].n + UnitTotal(c, S \ {i})

\* C16: the aggregate a call returns for a target field never exceeds the
\* sum of that field over the units the query boundary (of polygons and
\* closed rings) overlaps, also when features of the boundary overlap each
\* other.
C16_NoDoubleCounting ==
    \A p \in Threads :
        (Returned(p) /\ AllClosed(query[p])) =>
            \A c \in DOMAIN result[p].counts :
                result[p].counts[c].num <=
                    UnitTotal(c, Overlapping(query[p])) * result[p].counts[c].den

====
